---------------------------- MODULE Spec2Model ----------------------------
(***************************************************************************)
(* Collision risk analysis and alert deduplication:                        *)
(*   modules/alert_system.py     AlertSystem                               *)
(*   modules/risk_assessment.py  RealTimeRiskMonitor, VehicleTrack         *)
(*                                                                         *)
(* Numbers.  Python floats are modelled as exact rationals <<n, d>> in     *)
(* lowest terms with d > 0; float('inf') is <<1, 0>>.  Rounding error of   *)
(* IEEE arithmetic is not modelled.  The wall clock (time.time(),          *)
(* datetime.now()) is one integer count of seconds, `now`, which never     *)
(* runs backwards.                                                         *)
(***************************************************************************)
EXTENDS Integers, Sequences, FiniteSets, TLC

VARIABLES
    now,              \* the wall clock read by time.time() / datetime.now()
    alert_history,    \* AlertSystem.alert_history
    last_alert_time,  \* AlertSystem.last_alert_time (the cooldown table)
    analysis_result,  \* argument of the latest check_alerts call
    alerts,           \* value returned by the latest check_alerts call
    emitted,          \* history variable: every record ever emitted, with its key
    suppressed,       \* history variable: every candidate the cooldown gate dropped
    calls,            \* number of check_alerts calls made so far
    track,            \* one VehicleTrack object
    pos_log,          \* history variable: every position appended to the track
    vel_log,          \* history variable: every speed sample appended to the track
    updates,          \* number of update_position calls on the track
    score_in,         \* arguments of a risk score computation
    score_out,        \* its intermediate values and its result
    score_pc,         \* "call" before the computation, "done" after it
    risk_threshold,   \* RealTimeRiskMonitor.risk_threshold
    vehicle_trackers, \* RealTimeRiskMonitor.vehicle_trackers, in insertion order
    risk_events,      \* value returned by the latest process_frame call
    pair_evals,       \* every pair evaluation of the latest process_frame call
    prev_trackers,    \* vehicle_trackers as the previous process_frame call left it
    prev_pair_evals,  \* pair_evals of the previous process_frame call
    frames,           \* number of process_frame calls made so far
    frame_detections, \* argument of the latest process_frame call
    seen_ids,         \* history variable: every identifier a detection was filed under
    pending,          \* pairs of the current frame not evaluated yet (any-order loop)
    any_results,      \* the evaluations made so far by the any-order loop, as made
    th                \* per thread: its position in check_alerts and its locals

alertVars == <<alert_history, last_alert_time, analysis_result, alerts,
               emitted, suppressed, calls>>

trackVars == <<track, pos_log, vel_log, updates>>

scoreVars == <<score_in, score_out, score_pc>>

monitorVars == <<risk_threshold, vehicle_trackers, risk_events, pair_evals,
                 prev_trackers, prev_pair_evals, frames, frame_detections,
                 seen_ids>>

orderVars == <<pending, any_results>>

threadVars == <<th>>

vars == <<now, alertVars, trackVars, scoreVars, monitorVars, orderVars, threadVars>>

(***************************************************************************)
(* Bounds of the model.                                                    *)
(***************************************************************************)
MaxCalls == 3         \* check_alerts calls in SpecAlert
MaxBatchCalls == 2    \* check_alerts calls in SpecHistory
MaxUpdates == 12      \* update_position calls in SpecTrack
MaxDistance == 10     \* largest distance given to the risk score in SpecScore
MaxRelVelocity == 32  \* largest relative velocity given to it
MaxFrames == 3        \* process_frame calls in SpecMonitor
MaxOrderFrames == 2   \* frames evaluated pair by pair in SpecAnyOrder
MaxThreadCalls == 1   \* check_alerts calls of each thread in SpecThreads

(***************************************************************************)
(* Rational arithmetic.                                                    *)
(***************************************************************************)
Abs(x) == IF x < 0 THEN -x ELSE x

RECURSIVE Gcd(_, _)
Gcd(a, b) == IF b = 0 THEN a ELSE Gcd(b, a % b)

Rat(n, d) ==
    IF d = 0 THEN <<IF n = 0 THEN 0 ELSE IF n < 0 THEN -1 ELSE 1, 0>>
    ELSE LET s == IF d < 0 THEN -1 ELSE 1
             g == Gcd(Abs(n), Abs(d))
         IN  <<(s * n) \div g, (s * d) \div g>>

Inf == <<1, 0>>
IsInf(x) == x[2] = 0

RInt(n) == <<n, 1>>
RAdd(x, y) == Rat(x[1] * y[2] + y[1] * x[2], x[2] * y[2])
RSub(x, y) == Rat(x[1] * y[2] - y[1] * x[2], x[2] * y[2])
RMul(x, y) == Rat(x[1] * y[1], x[2] * y[2])
RDiv(x, y) == Rat(x[1] * y[2], x[2] * y[1])
RLt(x, y) == x[1] * y[2] < y[1] * x[2]
RLe(x, y) == x[1] * y[2] <= y[1] * x[2]
RGt(x, y) == RLt(y, x)
RMax(x, y) == IF RLt(x, y) THEN y ELSE x
RMin(x, y) == IF RLt(y, x) THEN y ELSE x
RAbs(x) == <<Abs(x[1]), x[2]>>

\* Square root, for the arguments whose root is rational (the positions of
\* the model are chosen so that every distance is).  FloorSqrt finds the
\* integer root by bisection; ISqrt is defined only when it is exact.
RECURSIVE FloorSqrt(_, _, _)
FloorSqrt(n, lo, hi) ==
    IF lo >= hi THEN lo
    ELSE LET mid == (lo + hi + 1) \div 2
         IN  IF mid * mid <= n THEN FloorSqrt(n, mid, hi)
             ELSE FloorSqrt(n, lo, mid - 1)

ISqrt(n) == CHOOSE r \in {FloorSqrt(n, 0, n)} : r * r = n
RSqrt(x) == <<ISqrt(x[1]), ISqrt(x[2])>>

RECURSIVE RSum(_)
RSum(h) == IF h = << >> THEN RInt(0) ELSE RAdd(Head(h), RSum(Tail(h)))

(***************************************************************************)
(* Vehicle identifiers are integers or strings.  str(id), as the f-string  *)
(* that builds an alert key formats it.                                    *)
(***************************************************************************)
IntId(n) == [kind |-> "int", n |-> n, s |-> ""]
StrId(s) == [kind |-> "str", n |-> 0, s |-> s]
NoId == [kind |-> "none", n |-> 0, s |-> ""]

Digit(n) ==
    CASE n = 0 -> "0" [] n = 1 -> "1" [] n = 2 -> "2" [] n = 3 -> "3"
      [] n = 4 -> "4" [] n = 5 -> "5" [] n = 6 -> "6" [] n = 7 -> "7"
      [] n = 8 -> "8" [] n = 9 -> "9"

RECURSIVE IntToStr(_)
IntToStr(n) ==
    IF n < 0 THEN "-" \o IntToStr(-n)
    ELSE IF n < 10 THEN Digit(n)
    ELSE IntToStr(n \div 10) \o Digit(n % 10)

PyStr(id) == IF id.kind = "int" THEN IntToStr(id.n) ELSE id.s

(***************************************************************************)
(* AlertSystem                                                             *)
(***************************************************************************)
alert_cooldown == 5

history_limit == 100

\* dict.get(key, default)
Get(d, k, default) == IF k \in DOMAIN d THEN d[k] ELSE default

emergency_threshold == <<4, 5>>      \* 0.8
event_threshold == <<7, 10>>         \* 0.7
high_threshold == <<4, 5>>           \* 0.8

\* Variant: the cooldown must be exceeded, not merely reached.
_can_send_alert_strict(lat, alert_key, current_time) ==
    IF alert_key \notin DOMAIN lat THEN TRUE
    ELSE current_time - lat[alert_key] > alert_cooldown

_can_send_alert(lat, alert_key, current_time) ==
    IF alert_key \notin DOMAIN lat THEN TRUE
    ELSE current_time - lat[alert_key] >= alert_cooldown

\* Variant: the time of a key is set once and kept (dict.setdefault).
_update_alert_time_once(lat, alert_key, current_time) ==
    [k \in DOMAIN lat \cup {alert_key} |->
        IF k \in DOMAIN lat THEN lat[k] ELSE current_time]

_update_alert_time(lat, alert_key, current_time) ==
    [k \in DOMAIN lat \cup {alert_key} |->
        IF k = alert_key THEN current_time ELSE lat[k]]

risk_event_key(event) ==
    "risk_event_" \o PyStr(event.vehicle1_id) \o "_" \o PyStr(event.vehicle2_id)

\* Variant: a score of exactly 0.8 already counts as HIGH.
risk_event_priority_inclusive(event) ==
    IF RLe(high_threshold, event.risk_score) THEN "HIGH" ELSE "MEDIUM"

risk_event_priority(event) ==
    IF RGt(event.risk_score, high_threshold) THEN "HIGH" ELSE "MEDIUM"

\* The frame-level conditions of one call that fire, in the order of the code;
\* each with its key, the record it would emit and (cond) the condition it is.
\* Variant: an overall score of exactly 0.8 already fires.
emergency_candidate_inclusive(a, t) ==
    IF RLe(emergency_threshold, Get(a, "overall_risk_score", RInt(0)))
    THEN << [key |-> "emergency_risk",
             cond |-> <<"emergency_risk", NoId, NoId>>,
             rec |-> [type |-> "EMERGENCY", priority |-> "HIGH", timestamp |-> t,
                      risk_score |-> a["overall_risk_score"]]] >>
    ELSE << >>

emergency_candidate(a, t) ==
    IF RGt(Get(a, "overall_risk_score", RInt(0)), emergency_threshold)
    THEN << [key |-> "emergency_risk",
             cond |-> <<"emergency_risk", NoId, NoId>>,
             rec |-> [type |-> "EMERGENCY", priority |-> "HIGH", timestamp |-> t,
                      risk_score |-> a["overall_risk_score"]]] >>
    ELSE << >>

\* Variant: a missing lane_violation field counts as a violation.
lane_candidate_default_true(a, t) ==
    IF Get(a, "lane_violation", TRUE)
    THEN << [key |-> "lane_violation",
             cond |-> <<"lane_violation", NoId, NoId>>,
             rec |-> [type |-> "LANE_VIOLATION", priority |-> "MEDIUM",
                      timestamp |-> t]] >>
    ELSE << >>

lane_candidate(a, t) ==
    IF Get(a, "lane_violation", FALSE)
    THEN << [key |-> "lane_violation",
             cond |-> <<"lane_violation", NoId, NoId>>,
             rec |-> [type |-> "LANE_VIOLATION", priority |-> "MEDIUM",
                      timestamp |-> t]] >>
    ELSE << >>

abnormal_candidate(a, t) ==
    IF Get(a, "abnormal_behavior", FALSE)
    THEN << [key |-> "abnormal_behavior",
             cond |-> <<"abnormal_behavior", NoId, NoId>>,
             rec |-> [type |-> "ABNORMAL_BEHAVIOR", priority |-> "MEDIUM",
                      timestamp |-> t]] >>
    ELSE << >>

event_fires(event) == RGt(event.risk_score, event_threshold)

event_candidate(event, t) ==
    [key |-> risk_event_key(event),
     cond |-> <<"risk_event", event.vehicle1_id, event.vehicle2_id>>,
     rec |-> [type |-> "RISK_EVENT", priority |-> risk_event_priority(event),
              timestamp |-> t, risk_score |-> event.risk_score]]

event_candidates(events, t) ==
    LET firing == SelectSeq(events, event_fires)
    IN  [i \in 1..Len(firing) |-> event_candidate(firing[i], t)]

Candidates(a, t) ==
    emergency_candidate(a, t) \o lane_candidate(a, t) \o abnormal_candidate(a, t)
        \o event_candidates(Get(a, "risk_events", << >>), t)

\* Variant: the key's time is updated for a suppressed candidate too.
gate_one_restarts(c, t, st) ==
    IF _can_send_alert(st.lat, c.key, t)
    THEN [sent |-> Append(st.sent, c),
          lat |-> _update_alert_time(st.lat, c.key, t),
          dropped |-> st.dropped]
    ELSE [sent |-> st.sent,
          lat |-> _update_alert_time(st.lat, c.key, t),
          dropped |-> Append(st.dropped, c)]

\* The cooldown gate applied to one candidate: a candidate that may be sent is
\* appended and its key's time is updated; any other is dropped (and kept in
\* `dropped` for the history variable only).
gate_one(c, t, st) ==
    IF _can_send_alert(st.lat, c.key, t)
    THEN [sent |-> Append(st.sent, c),
          lat |-> _update_alert_time(st.lat, c.key, t),
          dropped |-> st.dropped]
    ELSE [sent |-> st.sent, lat |-> st.lat, dropped |-> Append(st.dropped, c)]

\* The candidates lo..hi passed through the gate one after the other, in
\* order.  The range is halved, and the state after the first half is
\* computed before the second half starts, only to keep the evaluation
\* shallow.
RECURSIVE Gate(_, _, _, _, _)
Gate(cands, lo, hi, t, st) ==
    IF lo > hi THEN st
    ELSE IF lo = hi THEN gate_one(cands[lo], t, st)
    ELSE LET mid == (lo + hi) \div 2
             left == Gate(cands, lo, mid, t, st)
         IN  IF Len(left.sent) >= 0 /\ DOMAIN left.lat = DOMAIN left.lat
             THEN Gate(cands, mid + 1, hi, t, left)
             ELSE st

\* Variant: the oldest entries are kept (h[:100]).
keep_recent_oldest(h) ==
    IF Len(h) > history_limit THEN SubSeq(h, 1, history_limit) ELSE h

keep_recent(h) ==
    IF Len(h) > history_limit
    THEN SubSeq(h, Len(h) - history_limit + 1, Len(h))
    ELSE h

check_alerts(history, lat, a, t) ==
    LET cands == Candidates(a, t)
        g == Gate(cands, 1, Len(cands), t, [sent |-> << >>, lat |-> lat, dropped |-> << >>])
        out == [i \in 1..Len(g.sent) |-> g.sent[i].rec]
    IN  [alerts |-> out,
         sent |-> g.sent,
         dropped |-> g.dropped,
         last_alert_time |-> g.lat,
         alert_history |-> keep_recent(history \o out)]

(***************************************************************************)
(* VehicleTrack                                                            *)
(***************************************************************************)
position_limit == 10

velocity_limit == 5

fps == 30

pixel_to_meter_ratio == <<1, 10>>

VehicleTrack(vehicle_id) ==
    [id |-> vehicle_id,
     position |-> <<RInt(0), RInt(0)>>,
     velocity |-> RInt(0),
     position_history |-> << >>,
     velocity_history |-> << >>]

center(bbox) ==
    << RDiv(RInt(bbox[1] + bbox[3]), RInt(2)),
       RDiv(RInt(bbox[2] + bbox[4]), RInt(2)) >>

\* Variant: at capacity the newest entry is dropped (pop() for pop(0)).
push_position_drops_newest(h, p) ==
    LET a == Append(h, p)
    IN  IF Len(a) > position_limit THEN SubSeq(a, 1, Len(a) - 1) ELSE a

push_position(h, p) ==
    LET a == Append(h, p)
    IN  IF Len(a) > position_limit THEN Tail(a) ELSE a

push_velocity(h, v) ==
    LET a == Append(h, v)
    IN  IF Len(a) > velocity_limit THEN Tail(a) ELSE a

\* np.sqrt((x1 - x2)**2 + (y1 - y2)**2)
euclid(p, q) ==
    LET dx == RSub(p[1], q[1])
        dy == RSub(p[2], q[2])
    IN  RSqrt(RAdd(RMul(dx, dx), RMul(dy, dy)))

speed_sample(old_position, position) ==
    LET distance == euclid(position, old_position)
        real_distance == RMul(distance, pixel_to_meter_ratio)
    IN  RMul(real_distance, RInt(fps))

\* Variant: the latest sample instead of the mean.
mean_latest(h) == h[Len(h)]

mean(h) == RDiv(RSum(h), RInt(Len(h)))

\* Variant: a speed sample is taken on the first update too, from the (0, 0)
\* the constructor put in position.
update_position_samples_first(self, bbox) ==
    LET old_position == self.position
        position == center(bbox)
        ph == push_position(self.position_history, position)
    IN  IF Len(ph) >= 1
        THEN LET vh == push_velocity(self.velocity_history,
                                     speed_sample(old_position, position))
             IN  [self EXCEPT !.position = position,
                              !.position_history = ph,
                              !.velocity_history = vh,
                              !.velocity = mean(vh)]
        ELSE [self EXCEPT !.position = position, !.position_history = ph]

update_position(self, bbox) ==
    LET old_position == self.position
        position == center(bbox)
        ph == push_position(self.position_history, position)
    IN  IF Len(ph) >= 2
        THEN LET vh == push_velocity(self.velocity_history,
                                     speed_sample(old_position, position))
             IN  [self EXCEPT !.position = position,
                              !.position_history = ph,
                              !.velocity_history = vh,
                              !.velocity = mean(vh)]
        ELSE [self EXCEPT !.position = position, !.position_history = ph]

(***************************************************************************)
(* RealTimeRiskMonitor                                                     *)
(***************************************************************************)
reaction_time == <<3, 2>>        \* 1.5
deceleration == <<7, 1>>         \* 7.0
minimum_distance == <<2, 1>>     \* 2.0
max_velocity == <<30, 1>>        \* 30.0
collision_horizon == <<3, 1>>    \* 3.0
weight_distance == <<2, 5>>      \* 0.4
weight_velocity == <<3, 10>>     \* 0.3
weight_time_to_collision == <<3, 10>>   \* 0.3

calculate_distance(pos1, pos2) == euclid(pos1, pos2)

\* Variant: the minimum safe distance is not applied.
calculate_safe_distance_unfloored(velocity) ==
    LET reaction_distance == RMul(velocity, reaction_time)
        braking_distance == RDiv(RMul(velocity, velocity), RMul(RInt(2), deceleration))
    IN  RAdd(reaction_distance, braking_distance)

calculate_safe_distance(velocity) ==
    LET reaction_distance == RMul(velocity, reaction_time)
        braking_distance == RDiv(RMul(velocity, velocity), RMul(RInt(2), deceleration))
        safe_distance == RAdd(reaction_distance, braking_distance)
    IN  RMax(safe_distance, minimum_distance)

\* Variant: the zero relative velocity is not singled out.
calculate_time_to_collision_unguarded(distance, relative_velocity) ==
    RDiv(distance, relative_velocity)

calculate_time_to_collision(distance, relative_velocity) ==
    IF RLe(relative_velocity, RInt(0)) THEN Inf
    ELSE RDiv(distance, relative_velocity)

\* Variant: the distance risk is not clamped at 0.
distance_risk_unclamped(current_distance, safe_distance) ==
    RSub(RInt(1), RDiv(current_distance, safe_distance))

distance_risk(current_distance, safe_distance) ==
    RMax(RInt(0), RSub(RInt(1), RDiv(current_distance, safe_distance)))

velocity_risk(relative_velocity) ==
    RMin(RDiv(relative_velocity, max_velocity), RInt(1))

collision_risk(time_to_collision) ==
    IF time_to_collision = Inf THEN RInt(0)
    ELSE RMax(RInt(0), RSub(RInt(1), RDiv(time_to_collision, collision_horizon)))

\* Variant: the weights of the distance and velocity terms are exchanged.
total_risk_swapped(dr, vr, cr) ==
    RAdd(RAdd(RMul(dr, weight_velocity), RMul(vr, weight_distance)),
         RMul(cr, weight_time_to_collision))

total_risk(dr, vr, cr) ==
    RAdd(RAdd(RMul(dr, weight_distance), RMul(vr, weight_velocity)),
         RMul(cr, weight_time_to_collision))

\* The intermediate values of calculate_risk_score and its result.
risk_score_locals(current_distance, safe_distance, relative_velocity, time_to_collision) ==
    LET dr == distance_risk(current_distance, safe_distance)
        vr == velocity_risk(relative_velocity)
        cr == collision_risk(time_to_collision)
        total == total_risk(dr, vr, cr)
    IN  [distance_risk |-> dr, velocity_risk |-> vr, collision_risk |-> cr,
         total_risk |-> total, risk_score |-> RMin(total, RInt(1))]

calculate_risk_score(current_distance, safe_distance, relative_velocity, time_to_collision) ==
    risk_score_locals(current_distance, safe_distance, relative_velocity,
                      time_to_collision).risk_score

\* The values calculate_risk_between_vehicles computes for a pair before it
\* compares the score with the threshold.
pair_locals(vehicle1, vehicle2) ==
    LET distance == calculate_distance(vehicle1.position, vehicle2.position)
        relative_velocity == RAbs(RSub(vehicle1.velocity, vehicle2.velocity))
        safe_distance == calculate_safe_distance(relative_velocity)
        time_to_collision == calculate_time_to_collision(distance, relative_velocity)
    IN  [distance |-> distance,
         relative_velocity |-> relative_velocity,
         safe_distance |-> safe_distance,
         time_to_collision |-> time_to_collision,
         risk_score |-> calculate_risk_score(distance, safe_distance,
                                             relative_velocity, time_to_collision)]

\* Variant: a score equal to the threshold already gives an event.
calculate_risk_between_vehicles_inclusive(vehicle1, vehicle2, threshold, t) ==
    LET distance == calculate_distance(vehicle1.position, vehicle2.position)
        relative_velocity == RAbs(RSub(vehicle1.velocity, vehicle2.velocity))
        safe_distance == calculate_safe_distance(relative_velocity)
        time_to_collision == calculate_time_to_collision(distance, relative_velocity)
        risk_score == calculate_risk_score(distance, safe_distance, relative_velocity,
                                           time_to_collision)
    IN  IF RLe(threshold, risk_score)
        THEN << [vehicle1_id |-> vehicle1.id, vehicle2_id |-> vehicle2.id,
                 risk_score |-> risk_score, distance |-> distance,
                 relative_velocity |-> relative_velocity,
                 time_to_collision |-> time_to_collision, timestamp |-> t] >>
        ELSE << >>

\* Variant: the time to collision is counted from the wall clock.
calculate_risk_between_vehicles_clocked(vehicle1, vehicle2, threshold, t) ==
    LET distance == calculate_distance(vehicle1.position, vehicle2.position)
        relative_velocity == RAbs(RSub(vehicle1.velocity, vehicle2.velocity))
        safe_distance == calculate_safe_distance(relative_velocity)
        time_to_collision ==
            RAdd(calculate_time_to_collision(distance, relative_velocity), RInt(t))
        risk_score == calculate_risk_score(distance, safe_distance, relative_velocity,
                                           time_to_collision)
    IN  IF RGt(risk_score, threshold)
        THEN << [vehicle1_id |-> vehicle1.id, vehicle2_id |-> vehicle2.id,
                 risk_score |-> risk_score, distance |-> distance,
                 relative_velocity |-> relative_velocity,
                 time_to_collision |-> time_to_collision, timestamp |-> t] >>
        ELSE << >>

\* The result is << >> for None and <<event>> for an event.
calculate_risk_between_vehicles(vehicle1, vehicle2, threshold, t) ==
    LET distance == calculate_distance(vehicle1.position, vehicle2.position)
        relative_velocity == RAbs(RSub(vehicle1.velocity, vehicle2.velocity))
        safe_distance == calculate_safe_distance(relative_velocity)
        time_to_collision == calculate_time_to_collision(distance, relative_velocity)
        risk_score == calculate_risk_score(distance, safe_distance, relative_velocity,
                                           time_to_collision)
    IN  IF RGt(risk_score, threshold)
        THEN << [vehicle1_id |-> vehicle1.id, vehicle2_id |-> vehicle2.id,
                 risk_score |-> risk_score, distance |-> distance,
                 relative_velocity |-> relative_velocity,
                 time_to_collision |-> time_to_collision, timestamp |-> t] >>
        ELSE << >>

\* Variant: the evaluation leaves the relative velocity in the first track.
evaluate_pair_storing(trackers, i, j, threshold, t) ==
    [vehicle_trackers |->
        [trackers EXCEPT ![i].velocity = pair_locals(trackers[i], trackers[j]).relative_velocity],
     result |-> calculate_risk_between_vehicles(trackers[i], trackers[j], threshold, t)]

\* One evaluation as a step on the registry: calculate_risk_between_vehicles
\* assigns to no attribute of the tracks or of the monitor, so the registry
\* after it is the registry before it.
evaluate_pair(trackers, i, j, threshold, t) ==
    [vehicle_trackers |-> trackers,
     result |-> calculate_risk_between_vehicles(trackers[i], trackers[j], threshold, t)]

\* Index of the track registered under vehicle_id, 0 if there is none.
track_index(trackers, vehicle_id) ==
    IF \E i \in 1..Len(trackers) : trackers[i].id = vehicle_id
    THEN CHOOSE i \in 1..Len(trackers) : trackers[i].id = vehicle_id
    ELSE 0

detection_id(trackers, detection) ==
    IF "id" \in DOMAIN detection THEN detection["id"] ELSE IntId(Len(trackers))

\* Variant: no lookup, every detection gets a new track.
update_one_track_always_new(trackers, detection) ==
    LET vehicle_id == detection_id(trackers, detection)
        known == Append(trackers, VehicleTrack(vehicle_id))
    IN  [known EXCEPT ![Len(known)] = update_position(known[Len(known)], detection["bbox"])]

update_one_track(trackers, detection) ==
    LET vehicle_id == detection_id(trackers, detection)
        known == IF track_index(trackers, vehicle_id) = 0
                 THEN Append(trackers, VehicleTrack(vehicle_id))
                 ELSE trackers
        i == track_index(known, vehicle_id)
    IN  [known EXCEPT ![i] = update_position(known[i], detection["bbox"])]

RECURSIVE update_vehicle_tracks(_, _)
update_vehicle_tracks(trackers, detections) ==
    IF detections = << >> THEN trackers
    ELSE update_vehicle_tracks(update_one_track(trackers, Head(detections)),
                               Tail(detections))

\* The identifiers under which update_vehicle_tracks files the detections: the
\* 'id' of a detection, or the number of tracks at the moment it is handled.
RECURSIVE detected_ids(_, _)
detected_ids(trackers, dets) ==
    IF dets = << >> THEN {}
    ELSE {detection_id(trackers, Head(dets))}
            \cup detected_ids(update_one_track(trackers, Head(dets)), Tail(dets))

\* The pairs (i, j), i < j <= n, in the order of the two nested loops.
RECURSIVE pairs_from(_, _, _)
pairs_from(i, j, n) ==
    IF i > n THEN << >>
    ELSE IF j > n THEN pairs_from(i + 1, i + 2, n)
    ELSE << <<i, j>> >> \o pairs_from(i, j + 1, n)

RECURSIVE collect_events(_)
collect_events(evals) ==
    IF evals = << >> THEN << >>
    ELSE Head(evals).result \o collect_events(Tail(evals))

\* calculate_risk_between_vehicles on each of the pairs, in order.
RECURSIVE eval_pairs(_, _, _, _)
eval_pairs(tracked, pairs, threshold, t) ==
    IF pairs = << >> THEN << >>
    ELSE LET i == Head(pairs)[1]
             j == Head(pairs)[2]
         IN  << [i |-> i, j |-> j,
                 result |-> calculate_risk_between_vehicles(tracked[i], tracked[j],
                                                            threshold, t)] >>
             \o eval_pairs(tracked, Tail(pairs), threshold, t)

frame_result(tracked, evals) ==
    [vehicle_trackers |-> tracked, pair_evals |-> evals,
     risk_events |-> collect_events(evals)]

\* Variant: the inner loop starts at the track of the outer loop.
pair_loop_from_self(tracked, threshold, t) ==
    frame_result(tracked,
                 eval_pairs(tracked, pairs_from(1, 1, Len(tracked)), threshold, t))

pair_loop(tracked, threshold, t) ==
    frame_result(tracked,
                 eval_pairs(tracked, pairs_from(1, 2, Len(tracked)), threshold, t))

\* Variant: only the tracks detected in this frame are kept and paired.
process_frame_detected_only(trackers, detections, threshold, t) ==
    LET tracked == update_vehicle_tracks(trackers, detections)
        current == detected_ids(trackers, detections)
        IsCurrent(v) == v.id \in current
    IN  pair_loop(SelectSeq(tracked, IsCurrent), threshold, t)

process_frame(trackers, detections, threshold, t) ==
    pair_loop(update_vehicle_tracks(trackers, detections), threshold, t)

(***************************************************************************)
(* One VehicleTrack under a sequence of update_position calls.             *)
(***************************************************************************)
\* Bounding boxes whose centres, (3/2, 2) and (6, 8), are 15/2 pixels apart.
TrackBBoxes == { <<0, 0, 3, 4>>, <<3, 4, 9, 12>> }

TrackIdle ==
    /\ track = VehicleTrack(IntId(0))
    /\ pos_log = << >>
    /\ vel_log = << >>
    /\ updates = 0

UpdatePosition ==
    /\ updates < MaxUpdates
    /\ \E bbox \in TrackBBoxes :
         /\ track' = update_position(track, bbox)
         /\ pos_log' = Append(pos_log, center(bbox))
         /\ vel_log' = IF updates >= 1
                       THEN Append(vel_log, speed_sample(pos_log[Len(pos_log)],
                                                         center(bbox)))
                       ELSE vel_log
    /\ updates' = updates + 1
    /\ UNCHANGED <<now, alertVars, scoreVars, monitorVars, orderVars, threadVars>>

(***************************************************************************)
(* The risk score of a distance and a relative velocity.                   *)
(***************************************************************************)
\* Distances 0, 1/2, .. MaxDistance and relative velocities 0, 1/2, ..
\* MaxRelVelocity.
ScoreInputs ==
    { [distance |-> Rat(d, 2), relative_velocity |-> Rat(v, 2)] :
        d \in 0..(2 * MaxDistance), v \in 0..(2 * MaxRelVelocity) }

NoScore ==
    [safe_distance |-> RInt(0), time_to_collision |-> RInt(0),
     distance_risk |-> RInt(0), velocity_risk |-> RInt(0),
     collision_risk |-> RInt(0), total_risk |-> RInt(0), risk_score |-> RInt(0)]

ScoreIdle ==
    /\ score_in = [distance |-> RInt(0), relative_velocity |-> RInt(0)]
    /\ score_out = NoScore
    /\ score_pc = "idle"

\* safe distance, time to collision and risk score, as
\* calculate_risk_between_vehicles chains them.
Score ==
    /\ score_pc = "call"
    /\ LET distance == score_in.distance
           relative_velocity == score_in.relative_velocity
           safe_distance == calculate_safe_distance(relative_velocity)
           time_to_collision == calculate_time_to_collision(distance, relative_velocity)
           locals == risk_score_locals(distance, safe_distance, relative_velocity,
                                       time_to_collision)
       IN  score_out' =
             [safe_distance |-> safe_distance,
              time_to_collision |-> time_to_collision,
              distance_risk |-> locals.distance_risk,
              velocity_risk |-> locals.velocity_risk,
              collision_risk |-> locals.collision_risk,
              total_risk |-> locals.total_risk,
              risk_score |-> calculate_risk_score(distance, safe_distance,
                                                  relative_velocity, time_to_collision)]
    /\ score_pc' = "done"
    /\ UNCHANGED <<now, score_in, alertVars, trackVars, monitorVars, orderVars,
                   threadVars>>

(***************************************************************************)
(* The monitor under a sequence of process_frame calls.                    *)
(***************************************************************************)
Detection(vehicle_id, bbox) == [id |-> vehicle_id, bbox |-> bbox]
DetectionNoId(bbox) == [bbox |-> bbox]

\* Bounding boxes with centres (3, 4), (9/2, 6), (6, 8) and (12, 16): points
\* of one line, so that every distance between two of them is rational.
BoxA == <<2, 3, 4, 5>>
BoxB == <<4, 5, 5, 7>>
BoxC == <<4, 6, 8, 10>>
BoxD == <<10, 14, 14, 18>>

FrameInputs ==
    << << Detection(IntId(7), BoxA), Detection(IntId(12), BoxC) >>,
       << Detection(IntId(7), BoxC), Detection(IntId(12), BoxC) >>,
       << Detection(IntId(7), BoxD) >>,
       << Detection(IntId(12), BoxB), DetectionNoId(BoxA) >>,
       << Detection(StrId("a"), BoxD), DetectionNoId(BoxC) >>,
       << >> >>

\* Ticks of the clock between two frames.
FrameAdvances == {0, 1}

Thresholds == { <<7, 10>>, <<2, 5>> }

\* No frame is being evaluated pair by pair.
OrderIdle ==
    /\ pending = {}
    /\ any_results = << >>

MonitorIdle ==
    /\ OrderIdle
    /\ risk_threshold = <<7, 10>>
    /\ vehicle_trackers = << >>
    /\ risk_events = << >>
    /\ pair_evals = << >>
    /\ prev_trackers = << >>
    /\ prev_pair_evals = << >>
    /\ frames = 0
    /\ frame_detections = << >>
    /\ seen_ids = {}

ProcessFrame ==
    /\ frames < MaxFrames
    /\ \E f \in 1..Len(FrameInputs), d \in FrameAdvances :
         LET t == now + d
             r == process_frame(vehicle_trackers, FrameInputs[f], risk_threshold, t)
         IN  /\ now' = t
             /\ vehicle_trackers' = r.vehicle_trackers
             /\ risk_events' = r.risk_events
             /\ pair_evals' = r.pair_evals
             /\ prev_trackers' = vehicle_trackers
             /\ prev_pair_evals' = pair_evals
             /\ frame_detections' = FrameInputs[f]
             /\ seen_ids' = seen_ids \cup detected_ids(vehicle_trackers, FrameInputs[f])
    /\ frames' = frames + 1
    /\ UNCHANGED <<risk_threshold, alertVars, trackVars, scoreVars, orderVars,
                   threadVars>>

(***************************************************************************)
(* The monitor under frames of vehicles on one axis: every position is     *)
(* (x, 0), so every distance |x1 - x2| is rational, down to 0 and 1.       *)
(***************************************************************************)
\* The bounding box of side 2 centred at (x, 0).
BoxAt(x) == <<x - 1, -1, x + 1, 1>>

AxisInputs ==
    << << Detection(IntId(1), BoxAt(0)), Detection(IntId(2), BoxAt(1)) >>,
       << Detection(IntId(1), BoxAt(1)), Detection(IntId(2), BoxAt(2)) >>,
       << Detection(IntId(1), BoxAt(0)), Detection(IntId(2), BoxAt(3)),
          Detection(IntId(3), BoxAt(5)) >>,
       << Detection(IntId(3), BoxAt(2)) >>,
       << Detection(IntId(2), BoxAt(5)), Detection(IntId(3), BoxAt(0)) >>,
       << >> >>

ProcessFrameOnAxis ==
    /\ frames < MaxFrames
    /\ \E f \in 1..Len(AxisInputs), d \in FrameAdvances :
         LET t == now + d
             r == process_frame(vehicle_trackers, AxisInputs[f], risk_threshold, t)
         IN  /\ now' = t
             /\ vehicle_trackers' = r.vehicle_trackers
             /\ risk_events' = r.risk_events
             /\ pair_evals' = r.pair_evals
             /\ prev_trackers' = vehicle_trackers
             /\ prev_pair_evals' = pair_evals
             /\ frame_detections' = AxisInputs[f]
             /\ seen_ids' = seen_ids \cup detected_ids(vehicle_trackers, AxisInputs[f])
    /\ frames' = frames + 1
    /\ UNCHANGED <<risk_threshold, alertVars, trackVars, scoreVars, orderVars,
                   threadVars>>

(***************************************************************************)
(* The monitor under frames in which some detections carry small integer   *)
(* identifiers and some carry none.                                        *)
(***************************************************************************)
NoIdInputs ==
    << << Detection(IntId(1), BoxAt(0)) >>,
       << DetectionNoId(BoxAt(3)) >>,
       << Detection(IntId(1), BoxAt(1)), DetectionNoId(BoxAt(5)) >>,
       << Detection(IntId(0), BoxAt(2)) >>,
       << DetectionNoId(BoxAt(0)), DetectionNoId(BoxAt(1)) >>,
       << >> >>

ProcessFrameNoId ==
    /\ frames < MaxFrames
    /\ \E f \in 1..Len(NoIdInputs), d \in FrameAdvances :
         LET t == now + d
             r == process_frame(vehicle_trackers, NoIdInputs[f], risk_threshold, t)
         IN  /\ now' = t
             /\ vehicle_trackers' = r.vehicle_trackers
             /\ risk_events' = r.risk_events
             /\ pair_evals' = r.pair_evals
             /\ prev_trackers' = vehicle_trackers
             /\ prev_pair_evals' = pair_evals
             /\ frame_detections' = NoIdInputs[f]
             /\ seen_ids' = seen_ids \cup detected_ids(vehicle_trackers, NoIdInputs[f])
    /\ frames' = frames + 1
    /\ UNCHANGED <<risk_threshold, alertVars, trackVars, scoreVars, orderVars,
                   threadVars>>

(***************************************************************************)
(* The pair loop of a frame run in any order: after the registry update    *)
(* the pairs are evaluated one at a time, in an order chosen freely, while *)
(* the clock runs.  process_frame itself gives the results of the          *)
(* sequential loop, kept in pair_evals and risk_events.                    *)
(***************************************************************************)
\* The frames of three vehicles among AxisInputs.
OrderInputs == << AxisInputs[2], AxisInputs[3], AxisInputs[5] >>

BeginFrame ==
    /\ pending = {}
    /\ frames < MaxOrderFrames
    /\ \E f \in 1..Len(OrderInputs), d \in FrameAdvances :
         LET t == now + d
             r == process_frame(vehicle_trackers, OrderInputs[f], risk_threshold, t)
             n == Len(r.vehicle_trackers)
         IN  /\ now' = t
             /\ vehicle_trackers' = r.vehicle_trackers
             /\ risk_events' = r.risk_events
             /\ pair_evals' = r.pair_evals
             /\ prev_trackers' = vehicle_trackers
             /\ prev_pair_evals' = pair_evals
             /\ frame_detections' = OrderInputs[f]
             /\ seen_ids' = seen_ids \cup detected_ids(vehicle_trackers, OrderInputs[f])
             /\ pending' = {<<i, j>> : i, j \in 1..n} \cap {pr \in (1..n) \X (1..n) : pr[1] < pr[2]}
             /\ any_results' = << >>
    /\ frames' = frames + 1
    /\ UNCHANGED <<risk_threshold, alertVars, trackVars, scoreVars, threadVars>>

EvalAnyPair ==
    /\ \E pr \in pending, d \in FrameAdvances :
         LET t == now + d
             r == evaluate_pair(vehicle_trackers, pr[1], pr[2], risk_threshold, t)
         IN  /\ now' = t
             /\ vehicle_trackers' = r.vehicle_trackers
             /\ any_results' = Append(any_results,
                                      [i |-> pr[1], j |-> pr[2], result |-> r.result])
             /\ pending' = pending \ {pr}
    /\ UNCHANGED <<risk_threshold, risk_events, pair_evals, prev_trackers,
                   prev_pair_evals, frames, frame_detections, seen_ids,
                   alertVars, trackVars, scoreVars, threadVars>>

(***************************************************************************)
(* Analysis results handed to check_alerts.  An event carries the three    *)
(* fields check_alerts reads.                                              *)
(***************************************************************************)
Event(v1, v2, score) ==
    [vehicle1_id |-> v1, vehicle2_id |-> v2, risk_score |-> score]

EmptyResult == [k \in {} |-> 0]

AnalysisInputs ==
    << [overall_risk_score |-> <<17, 20>>],
       [overall_risk_score |-> <<4, 5>>, lane_violation |-> TRUE,
        abnormal_behavior |-> FALSE],
       [overall_risk_score |-> <<9, 10>>, lane_violation |-> FALSE,
        abnormal_behavior |-> TRUE,
        risk_events |-> << Event(IntId(7), IntId(12), <<9, 10>>),
                           Event(IntId(7), IntId(12), <<3, 4>>),
                           Event(IntId(3), IntId(4), <<4, 5>>),
                           Event(IntId(5), IntId(6), <<7, 10>>) >>],
       [risk_events |-> << Event(IntId(7), IntId(12), <<3, 4>>),
                           Event(IntId(71), IntId(2), <<81, 100>>) >>],
       [risk_events |-> << Event(StrId("1_2"), StrId("3"), <<9, 10>>) >>],
       [risk_events |-> << Event(StrId("1"), StrId("2_3"), <<3, 4>>),
                           Event(IntId(1), StrId("2_3"), <<9, 10>>) >>],
       EmptyResult >>

\* n events, every one under a key of its own (vehicles from+1 .. from+n+1).
Batch(from, n) ==
    [risk_events |->
        [k \in 1..n |-> Event(IntId(from + k), IntId(from + k + 1), <<9, 10>>)]]

\* Batches around the capacity of the history: one larger than the history,
\* one that fills it only together with an earlier batch.
HistoryInputs ==
    << Batch(0, history_limit + 1),
       Batch(200, (history_limit \div 2) + 10),
       [overall_risk_score |-> <<9, 10>>, lane_violation |-> TRUE],
       EmptyResult >>

\* Seconds that pass between two calls (the clock never runs backwards).
Advances == {0, 1, 5}

ThreadIds == {1, 2}

\* A thread that is not inside check_alerts; n counts the calls it has made.
IdleThread(n) ==
    [pc |-> "idle", a |-> EmptyResult, t |-> 0, cands |-> << >>, idx |-> 0,
     alerts |-> << >>, slice |-> << >>, n |-> n]

AlertIdle ==
    /\ th = [w \in ThreadIds |-> IdleThread(0)]
    /\ alert_history = << >>
    /\ last_alert_time = [k \in {} |-> 0]
    /\ analysis_result = EmptyResult
    /\ alerts = << >>
    /\ emitted = << >>
    /\ suppressed = << >>
    /\ calls = 0

\* One call check_alerts(a), d seconds after the previous step.
Call(a, d) ==
    LET t == now + d
        r == check_alerts(alert_history, last_alert_time, a, t)
    IN  /\ now' = t
        /\ analysis_result' = a
        /\ alerts' = r.alerts
        /\ alert_history' = r.alert_history
        /\ last_alert_time' = r.last_alert_time
        /\ emitted' = emitted \o r.sent
        /\ suppressed' = suppressed \o r.dropped
        /\ calls' = calls + 1
        /\ UNCHANGED <<trackVars, scoreVars, monitorVars, orderVars, threadVars>>

CheckAlerts ==
    /\ calls < MaxCalls
    /\ \E i \in 1..Len(AnalysisInputs), d \in Advances : Call(AnalysisInputs[i], d)

CheckAlertsBatch ==
    /\ calls < MaxBatchCalls
    /\ \E i \in 1..Len(HistoryInputs), d \in Advances : Call(HistoryInputs[i], d)

(***************************************************************************)
(* check_alerts called by two threads on one AlertSystem.  The class holds *)
(* no lock, so the threads interleave between the reads and writes of      *)
(* last_alert_time and alert_history: the membership test and subtraction  *)
(* of _can_send_alert, the store of _update_alert_time, the extend, the    *)
(* slice alert_history[-100:] and the assignment of the slice.             *)
(***************************************************************************)
ThreadInputs ==
    << [overall_risk_score |-> <<9, 10>>],
       [overall_risk_score |-> <<9, 10>>, lane_violation |-> TRUE] >>

ThreadAdvances == {0, 1}

Quiescent == \A w \in ThreadIds : th[w].pc = "idle"

\* Where a thread goes once it is done with the candidates before idx.
after_candidate(cands, idx) == IF idx > Len(cands) THEN "extend" ELSE "gate"

Records(cands) == [i \in 1..Len(cands) |-> cands[i].rec]

\* A first call made while no other thread runs, which fills the history.
Preload ==
    /\ calls = 0
    /\ \A w \in ThreadIds : th[w] = IdleThread(0)
    /\ Call(Batch(0, history_limit), 0)

\* Entry: the clock is read and the conditions are evaluated on the argument.
T_Begin(w) ==
    /\ th[w].pc = "idle"
    /\ th[w].n < MaxThreadCalls
    /\ \E i \in 1..Len(ThreadInputs), d \in ThreadAdvances :
         LET t == now + d
             cands == Candidates(ThreadInputs[i], t)
         IN  /\ now' = t
             /\ th' = [th EXCEPT ![w] =
                          [pc |-> after_candidate(cands, 1), a |-> ThreadInputs[i],
                           t |-> t, cands |-> cands, idx |-> 1, alerts |-> << >>,
                           slice |-> << >>, n |-> th[w].n]]
    /\ UNCHANGED <<alertVars, trackVars, scoreVars, monitorVars, orderVars>>

\* _can_send_alert on the candidate at idx.
T_CanSend(w) ==
    /\ th[w].pc = "gate"
    /\ LET c == th[w].cands[th[w].idx]
       IN  IF _can_send_alert(last_alert_time, c.key, th[w].t)
           THEN /\ th' = [th EXCEPT ![w].pc = "send"]
                /\ UNCHANGED suppressed
           ELSE /\ th' = [th EXCEPT ![w].idx = @ + 1,
                                    ![w].pc = after_candidate(th[w].cands, th[w].idx + 1)]
                /\ suppressed' = Append(suppressed, c)
    /\ UNCHANGED <<now, alert_history, last_alert_time, analysis_result, alerts,
                   emitted, calls, trackVars, scoreVars, monitorVars, orderVars>>

\* alerts.append(...) and _update_alert_time for the candidate at idx.
T_Send(w) ==
    /\ th[w].pc = "send"
    /\ LET c == th[w].cands[th[w].idx]
       IN  /\ th' = [th EXCEPT ![w].alerts = Append(@, c),
                                ![w].idx = @ + 1,
                                ![w].pc = after_candidate(th[w].cands, th[w].idx + 1)]
           /\ last_alert_time' = _update_alert_time(last_alert_time, c.key, th[w].t)
           /\ emitted' = Append(emitted, c)
    /\ UNCHANGED <<now, alert_history, analysis_result, alerts, suppressed, calls,
                   trackVars, scoreVars, monitorVars, orderVars>>

\* self.alert_history.extend(alerts)
T_Extend(w) ==
    /\ th[w].pc = "extend"
    /\ alert_history' = alert_history \o Records(th[w].alerts)
    /\ th' = [th EXCEPT ![w].pc = "trim"]
    /\ UNCHANGED <<now, last_alert_time, analysis_result, alerts, emitted, suppressed,
                   calls, trackVars, scoreVars, monitorVars, orderVars>>

\* The length test, and the slice self.alert_history[-100:] into a new list.
T_Slice(w) ==
    /\ th[w].pc = "trim"
    /\ IF Len(alert_history) > history_limit
       THEN th' = [th EXCEPT ![w].slice = keep_recent(alert_history), ![w].pc = "store"]
       ELSE th' = [th EXCEPT ![w].pc = "return"]
    /\ UNCHANGED <<now, alertVars, trackVars, scoreVars, monitorVars, orderVars>>

\* self.alert_history = <the slice>
T_Store(w) ==
    /\ th[w].pc = "store"
    /\ alert_history' = th[w].slice
    /\ th' = [th EXCEPT ![w].pc = "return"]
    /\ UNCHANGED <<now, last_alert_time, analysis_result, alerts, emitted, suppressed,
                   calls, trackVars, scoreVars, monitorVars, orderVars>>

\* return alerts
T_Return(w) ==
    /\ th[w].pc = "return"
    /\ alerts' = Records(th[w].alerts)
    /\ analysis_result' = th[w].a
    /\ calls' = calls + 1
    /\ th' = [th EXCEPT ![w] = IdleThread(th[w].n + 1)]
    /\ UNCHANGED <<now, alert_history, last_alert_time, emitted, suppressed,
                   trackVars, scoreVars, monitorVars, orderVars>>

InitAlert == now = 0 /\ AlertIdle /\ TrackIdle /\ ScoreIdle /\ MonitorIdle

NextAlert == CheckAlerts

SpecAlert == InitAlert /\ [][NextAlert]_vars

NextHistory == CheckAlertsBatch

SpecHistory == InitAlert /\ [][NextHistory]_vars

InitThreads == InitAlert

NextThreads ==
    \/ Preload
    \/ \E w \in ThreadIds :
          \/ T_Begin(w)
          \/ T_CanSend(w)
          \/ T_Send(w)
          \/ T_Extend(w)
          \/ T_Slice(w)
          \/ T_Store(w)
          \/ T_Return(w)

SpecThreads == InitThreads /\ [][NextThreads]_vars

InitTrack == InitAlert

NextTrack == UpdatePosition

SpecTrack == InitTrack /\ [][NextTrack]_vars

InitScore ==
    /\ now = 0
    /\ AlertIdle /\ TrackIdle /\ MonitorIdle
    /\ score_in \in ScoreInputs
    /\ score_out = NoScore
    /\ score_pc = "call"

NextScore == Score

SpecScore == InitScore /\ [][NextScore]_vars

InitMonitor ==
    /\ now = 0
    /\ AlertIdle /\ TrackIdle /\ ScoreIdle /\ OrderIdle
    /\ risk_threshold \in Thresholds
    /\ vehicle_trackers = << >>
    /\ risk_events = << >>
    /\ pair_evals = << >>
    /\ prev_trackers = << >>
    /\ prev_pair_evals = << >>
    /\ frames = 0
    /\ frame_detections = << >>
    /\ seen_ids = {}

NextMonitor == ProcessFrame

SpecMonitor == InitMonitor /\ [][NextMonitor]_vars

InitAnyOrder == InitMonitor

NextAnyOrder == BeginFrame \/ EvalAnyPair

SpecAnyOrder == InitAnyOrder /\ [][NextAnyOrder]_vars

InitAxis == InitMonitor

InitNoId == InitMonitor

NextNoId == ProcessFrameNoId

SpecNoId == InitNoId /\ [][NextNoId]_vars

NextAxis == ProcessFrameOnAxis

SpecAxis == InitAxis /\ [][NextAxis]_vars

(***************************************************************************)
(* Properties of AlertSystem                                               *)
(***************************************************************************)
CallStep == calls' = calls + 1

\* The keys of the conditions that fire in a call check_alerts(a) at time t.
FiringKeys(a, t) == {Candidates(a, t)[i].key : i \in 1..Len(Candidates(a, t))}

\* The entries a step appends to a history variable.
Appended(old, new) == [i \in 1..(Len(new) - Len(old)) |-> new[Len(old) + i]]

IsSuffix(s, full) ==
    /\ Len(s) <= Len(full)
    /\ s = SubSeq(full, Len(full) - Len(s) + 1, Len(full))

RiskEvents(a) == IF "risk_events" \in DOMAIN a THEN a["risk_events"] ELSE << >>

\* C1 (cooldown gate).  Over the calls made so far, two records emitted for
\* the same key are at least the 5 s cooldown apart (so calls less than 5 s
\* apart emit at most one record for a key), and a call in which a key's
\* condition fires when the key was never emitted, or was last emitted 5 s
\* or more ago (boundary included), emits a record for it.
C1_CooldownGate ==
    [][CallStep =>
        /\ \A i, j \in 1..Len(emitted') :
              (i < j /\ emitted'[i].key = emitted'[j].key)
                 => emitted'[j].rec.timestamp - emitted'[i].rec.timestamp >= 5
        /\ \A k \in FiringKeys(analysis_result', now') :
              (\A i \in 1..Len(emitted) :
                  emitted[i].key = k => now' - emitted[i].rec.timestamp >= 5)
                 => \E i \in (Len(emitted) + 1)..Len(emitted') : emitted'[i].key = k
    ]_vars

\* A key emitted twice exactly 5 s apart, and a later call that suppressed it.
C1_Witness ==
    /\ \E i, j \in 1..Len(emitted) :
          /\ i < j
          /\ emitted[i].key = emitted[j].key
          /\ emitted[j].rec.timestamp - emitted[i].rec.timestamp = 5
          /\ \E m \in 1..Len(suppressed) :
                /\ suppressed[m].key = emitted[j].key
                /\ suppressed[m].rec.timestamp > emitted[j].rec.timestamp

\* C2 (a suppressed condition has no side effect).  In a call made while a
\* firing key is still cooling down, the key's last-emit time is unchanged,
\* no record is emitted for the key, the call returns exactly the records it
\* emitted, and only those are appended to the history.
C2_SuppressedNoEffect ==
    [][CallStep =>
        \A k \in FiringKeys(analysis_result', now') :
           (k \in DOMAIN last_alert_time /\ now' - last_alert_time[k] < 5)
              => /\ k \in DOMAIN last_alert_time'
                 /\ last_alert_time'[k] = last_alert_time[k]
                 /\ \A i \in (Len(emitted) + 1)..Len(emitted') : emitted'[i].key # k
                 /\ \E m \in (Len(suppressed) + 1)..Len(suppressed') :
                       suppressed'[m].key = k
                 /\ alerts' = [i \in 1..(Len(emitted') - Len(emitted)) |->
                                  emitted'[Len(emitted) + i].rec]
                 /\ IsSuffix(alert_history', alert_history \o alerts')
    ]_vars

\* Emitted at t, suppressed at t + 1, emitted again at t + 6.
C2_Witness ==
    \E i, j \in 1..Len(emitted), m \in 1..Len(suppressed) :
        /\ emitted[i].key = "emergency_risk"
        /\ emitted[j].key = "emergency_risk"
        /\ suppressed[m].key = "emergency_risk"
        /\ suppressed[m].rec.timestamp = emitted[i].rec.timestamp + 1
        /\ emitted[j].rec.timestamp = emitted[i].rec.timestamp + 6

\* C3 (bounded history).  alert_history is the most recent min(100, N) of
\* the N records emitted so far, in emission order; its length is at most 100.
C3_HistoryMostRecent ==
    LET N == Len(emitted)
        m == IF N < 100 THEN N ELSE 100
    IN  /\ Len(alert_history) <= 100
        /\ alert_history = [i \in 1..m |-> emitted[N - m + i].rec]

\* A single batch larger than the history arrived after earlier records.
C3_Witness ==
    /\ Len(alerts) > 100
    /\ Len(emitted) > Len(alerts)
    /\ Len(alert_history) = 100

\* C8 (per-pair alerts).  Every RISK_EVENT record a call returns carries the
\* score of an event of the analysis result whose score is above 0.7, and
\* has priority HIGH if that score is above 0.8 and MEDIUM otherwise; an
\* event above 0.7 has gone through the gate under its pair's key (the key
\* is in the cooldown table, emitted less than 5 s ago); an event at or
\* below 0.7 produces no record; the pair 7, 12 has key risk_event_7_12.
C8_PairAlerts ==
    LET events == RiskEvents(analysis_result)
        fresh == SubSeq(emitted, Len(emitted) - Len(alerts) + 1, Len(emitted))
    IN  /\ \A i \in 1..Len(alerts) :
              alerts[i].type = "RISK_EVENT" =>
                 \E j \in 1..Len(events) :
                    /\ RGt(events[j].risk_score, <<7, 10>>)
                    /\ fresh[i].cond =
                          <<"risk_event", events[j].vehicle1_id, events[j].vehicle2_id>>
                    /\ alerts[i].risk_score = events[j].risk_score
                    /\ alerts[i].priority =
                          IF RGt(events[j].risk_score, <<4, 5>>) THEN "HIGH" ELSE "MEDIUM"
        /\ \A j \in 1..Len(events) :
              IF RGt(events[j].risk_score, <<7, 10>>)
              THEN /\ risk_event_key(events[j]) \in DOMAIN last_alert_time
                   /\ now - last_alert_time[risk_event_key(events[j])] < 5
                   /\ (events[j].vehicle1_id = IntId(7) /\ events[j].vehicle2_id = IntId(12))
                         => "risk_event_7_12" \in DOMAIN last_alert_time
              ELSE \A i \in 1..Len(fresh) :
                      ~ /\ fresh[i].cond =
                             <<"risk_event", events[j].vehicle1_id, events[j].vehicle2_id>>
                        /\ fresh[i].rec.risk_score = events[j].risk_score
        /\ \A i \in 1..Len(alert_history) :
              alert_history[i].type = "RISK_EVENT" =>
                 /\ RGt(alert_history[i].risk_score, <<7, 10>>)
                 /\ alert_history[i].priority =
                       IF RGt(alert_history[i].risk_score, <<4, 5>>) THEN "HIGH" ELSE "MEDIUM"

\* One call with events at 0.9, 0.8 and 0.7: HIGH, MEDIUM and nothing.
C8_Witness ==
    /\ \E i \in 1..Len(alerts) :
          /\ alerts[i].type = "RISK_EVENT"
          /\ alerts[i].risk_score = <<4, 5>>
          /\ alerts[i].priority = "MEDIUM"
    /\ \E i \in 1..Len(alerts) :
          /\ alerts[i].type = "RISK_EVENT"
          /\ alerts[i].risk_score = <<9, 10>>
          /\ alerts[i].priority = "HIGH"
    /\ \E j \in 1..Len(RiskEvents(analysis_result)) :
          RiskEvents(analysis_result)[j].risk_score = <<7, 10>>

\* C9 (frame-level conditions).  A call returns an EMERGENCY record only if
\* overall_risk_score is above 0.8, and with priority HIGH; a LANE_VIOLATION
\* record only if lane_violation is true and an ABNORMAL_BEHAVIOR record only
\* if abnormal_behavior is true, both with priority MEDIUM; every record of
\* the history has priority HIGH or MEDIUM.
C9_FrameConditions ==
    /\ \A i \in 1..Len(alerts) :
          /\ alerts[i].type = "EMERGENCY" =>
                /\ "overall_risk_score" \in DOMAIN analysis_result
                /\ RGt(analysis_result["overall_risk_score"], <<4, 5>>)
                /\ alerts[i].priority = "HIGH"
          /\ alerts[i].type = "LANE_VIOLATION" =>
                /\ "lane_violation" \in DOMAIN analysis_result
                /\ analysis_result["lane_violation"] = TRUE
                /\ alerts[i].priority = "MEDIUM"
          /\ alerts[i].type = "ABNORMAL_BEHAVIOR" =>
                /\ "abnormal_behavior" \in DOMAIN analysis_result
                /\ analysis_result["abnormal_behavior"] = TRUE
                /\ alerts[i].priority = "MEDIUM"
    /\ \A i \in 1..Len(alert_history) :
          /\ alert_history[i].priority \in {"HIGH", "MEDIUM"}
          /\ alert_history[i].type = "EMERGENCY" => alert_history[i].priority = "HIGH"
          /\ alert_history[i].type \in {"LANE_VIOLATION", "ABNORMAL_BEHAVIOR"}
                => alert_history[i].priority = "MEDIUM"

\* A call with overall_risk_score exactly 0.8 and a lane violation, after an
\* emergency: it returns the lane violation and no emergency.
C9_Witness ==
    /\ "overall_risk_score" \in DOMAIN analysis_result
    /\ analysis_result["overall_risk_score"] = <<4, 5>>
    /\ \E i \in 1..Len(alerts) : alerts[i].type = "LANE_VIOLATION"
    /\ \A i \in 1..Len(alerts) : alerts[i].type # "EMERGENCY"
    /\ \E i \in 1..Len(alert_history) :
          alert_history[i].type = "EMERGENCY" /\ alert_history[i].priority = "HIGH"

\* C10 (independent cooldown clocks).  A condition that fires in a call and
\* has not itself been emitted during the last 5 s is emitted: a record
\* emitted for another condition (another vehicle pair included) never
\* suppresses it.
C10_IndependentClocks ==
    [][CallStep =>
        LET cands == Candidates(analysis_result', now')
        IN  \A c \in 1..Len(cands) :
               (\A i \in 1..Len(emitted) :
                   emitted[i].cond = cands[c].cond
                      => now' - emitted[i].rec.timestamp >= 5)
                  => \E i \in (Len(emitted) + 1)..Len(emitted') :
                        emitted'[i].cond = cands[c].cond
    ]_vars

(***************************************************************************)
(* Properties of VehicleTrack and RealTimeRiskMonitor                      *)
(***************************************************************************)
LastOf(log, n) ==
    LET m == IF Len(log) < n THEN Len(log) ELSE n
    IN  [i \in 1..m |-> log[Len(log) - m + i]]

\* C4 (bounded track histories).  After any number of update_position calls
\* position_history is the most recent min(10, N) of the N positions
\* recorded and velocity_history the most recent min(5, M) of the M speed
\* samples taken, both in chronological order: at most 10 and 5 entries,
\* the oldest evicted first.
C4_TrackHistories ==
    /\ Len(track.position_history) <= 10
    /\ Len(track.velocity_history) <= 5
    /\ track.position_history = LastOf(pos_log, 10)
    /\ track.velocity_history = LastOf(vel_log, 5)

\* Both histories are full and the first position recorded, unlike the one
\* that is now the oldest kept, has been evicted.
C4_Witness ==
    /\ Len(pos_log) > 10
    /\ Len(track.position_history) = 10
    /\ Len(track.velocity_history) = 5
    /\ pos_log[1] # track.position_history[1]
    /\ vel_log[1] # track.velocity_history[1]

\* C5 (risk score range).  For every distance and relative velocity >= 0,
\* the risk score computed from the safe distance and the time to collision
\* is a finite value in [0, 1].
C5_ScoreInUnitInterval ==
    score_pc = "done" =>
        /\ score_out.risk_score[2] > 0
        /\ RLe(RInt(0), score_out.risk_score)
        /\ RLe(score_out.risk_score, RInt(1))

\* Distance 0 and relative velocity 0: the score is 0.4.
C5_Witness ==
    /\ score_pc = "done"
    /\ score_in.distance = RInt(0)
    /\ score_in.relative_velocity = RInt(0)
    /\ score_out.risk_score = <<2, 5>>

\* C6 (zero relative velocity).  With relative velocity 0 the time to
\* collision is +infinity and the collision risk is 0 whatever the distance,
\* so the score is made of the distance and velocity terms alone.
C6_ZeroRelativeVelocity ==
    (score_pc = "done" /\ score_in.relative_velocity = RInt(0)) =>
        /\ score_out.time_to_collision = <<1, 0>>
        /\ score_out.collision_risk = RInt(0)
        /\ score_out.total_risk =
              RAdd(RMul(<<2, 5>>, score_out.distance_risk),
                   RMul(<<3, 10>>, score_out.velocity_risk))
        /\ score_out.risk_score = score_out.total_risk

\* Relative velocity 0 at distance 1: safe distance 2, score 0.2.
C6_Witness ==
    /\ score_pc = "done"
    /\ score_in.relative_velocity = RInt(0)
    /\ score_in.distance = RInt(1)
    /\ score_out.safe_distance = RInt(2)
    /\ score_out.risk_score = <<1, 5>>

\* The tracks were the same at the latest two process_frame calls.
SameTrackState == frames >= 2 /\ prev_trackers = vehicle_trackers

WithoutTimestamp(event) ==
    [vehicle1_id |-> event.vehicle1_id, vehicle2_id |-> event.vehicle2_id,
     risk_score |-> event.risk_score, distance |-> event.distance,
     relative_velocity |-> event.relative_velocity,
     time_to_collision |-> event.time_to_collision]

EvalsWithoutTimestamp(evals) ==
    [k \in 1..Len(evals) |->
        [i |-> evals[k].i, j |-> evals[k].j,
         result |-> [m \in 1..Len(evals[k].result) |->
                        WithoutTimestamp(evals[k].result[m])]]]

\* C7 as stated (determinism in every field).  Two evaluations of the same
\* pairs with identical track state and threshold give identical results:
\* None both times, or events equal in every field.
C7_IdenticalInEveryField ==
    SameTrackState => prev_pair_evals = pair_evals

\* C7 as amended.  Two evaluations of the same pairs with identical track
\* state and threshold give None both times, or events equal in every field
\* except timestamp.
C7_IdenticalButTimestamp ==
    SameTrackState =>
        EvalsWithoutTimestamp(prev_pair_evals) = EvalsWithoutTimestamp(pair_evals)

\* The same track state evaluated at two different times, one pair giving an
\* event both times and another pair None both times.
C7_Witness ==
    /\ SameTrackState
    /\ Len(pair_evals) = Len(prev_pair_evals)
    /\ \E k \in 1..Len(pair_evals) :
          /\ pair_evals[k].result # << >>
          /\ prev_pair_evals[k].result # << >>
          /\ pair_evals[k].result[1].timestamp # prev_pair_evals[k].result[1].timestamp
    /\ \E k \in 1..Len(pair_evals) :
          pair_evals[k].result = << >> /\ prev_pair_evals[k].result = << >>

(***************************************************************************)
(* Properties of AlertSystem, continued                                    *)
(***************************************************************************)
\* The types of the records a call emitted or suppressed.
TypesOf(cands) == {cands[i].rec.type : i \in 1..Len(cands)}

\* C11 (permissive defaulting).  A call whose analysis result lacks
\* overall_risk_score, lane_violation, abnormal_behavior or risk_events
\* handles the missing field as 0, false or empty: the condition of a
\* missing field neither emits nor suppresses a record, the call returns
\* (its result is the list of the records it emitted), and a call with no
\* field at all returns the empty list and leaves the cooldown table and the
\* history as they were.
C11_PermissiveDefaulting ==
    [][CallStep =>
        LET a == analysis_result'
            handled == TypesOf(Appended(emitted, emitted'))
                          \cup TypesOf(Appended(suppressed, suppressed'))
        IN  /\ "overall_risk_score" \notin DOMAIN a => "EMERGENCY" \notin handled
            /\ "lane_violation" \notin DOMAIN a => "LANE_VIOLATION" \notin handled
            /\ "abnormal_behavior" \notin DOMAIN a => "ABNORMAL_BEHAVIOR" \notin handled
            /\ "risk_events" \notin DOMAIN a => "RISK_EVENT" \notin handled
            /\ Len(alerts') = Len(emitted') - Len(emitted)
            /\ DOMAIN a = {} =>
                  /\ alerts' = << >>
                  /\ last_alert_time' = last_alert_time
                  /\ alert_history' = alert_history
    ]_vars

\* A call with no field at all, made when the cooldown table and the history
\* are not empty.
C11_Witness ==
    /\ calls >= 2
    /\ DOMAIN analysis_result = {}
    /\ alerts = << >>
    /\ alert_history # << >>
    /\ DOMAIN last_alert_time # {}

(***************************************************************************)
(* Properties of RealTimeRiskMonitor, continued                            *)
(***************************************************************************)
Ids(trackers) == {trackers[i].id : i \in 1..Len(trackers)}

IdSeq(trackers) == [i \in 1..Len(trackers) |-> trackers[i].id]

IsPrefix(s, full) == Len(s) <= Len(full) /\ s = SubSeq(full, 1, Len(s))

\* C12 (the registry never removes a track).  After any sequence of
\* process_frame calls the registry holds exactly one track for each
\* identifier a detection was ever filed under; the tracks of the previous
\* call are all still there, in their order, new ones after them; and every
\* identifier given in the latest call's frame_detections has a track.
C12_RegistryOnlyGrows ==
    /\ \A i, j \in 1..Len(vehicle_trackers) :
          vehicle_trackers[i].id = vehicle_trackers[j].id => i = j
    /\ Ids(vehicle_trackers) = seen_ids
    /\ IsPrefix(IdSeq(prev_trackers), IdSeq(vehicle_trackers))
    /\ Len(prev_trackers) <= Len(vehicle_trackers)
    /\ \A k \in 1..Len(frame_detections) :
          "id" \in DOMAIN frame_detections[k] => frame_detections[k]["id"] \in Ids(vehicle_trackers)

\* A call that re-detected one track, created another and left a third one
\* undetected.
C12_Witness ==
    /\ frames >= 2
    /\ Len(vehicle_trackers) > Len(prev_trackers)
    /\ \E k \in 1..Len(frame_detections) :
          "id" \in DOMAIN frame_detections[k] /\ frame_detections[k]["id"] \in Ids(prev_trackers)
    /\ \E i \in 1..Len(prev_trackers) :
          \A k \in 1..Len(frame_detections) :
             "id" \in DOMAIN frame_detections[k] => frame_detections[k]["id"] # prev_trackers[i].id

\* The results that are not None, in the order of the evaluations.
RECURSIVE NonNone(_)
NonNone(evals) ==
    IF evals = << >> THEN << >>
    ELSE (IF Head(evals).result = << >> THEN << >> ELSE << Head(evals).result[1] >>)
            \o NonNone(Tail(evals))

\* C13 (every unordered pair once, in order).  A process_frame call on n
\* registered tracks makes n(n-1)/2 evaluations, one for each pair (i, j)
\* with i < j, in the order of i and then of j (so no pair twice, no track
\* with itself); it returns the results that are not None in that order; and
\* an event of the pair (i, j) names track i as vehicle1 and track j as
\* vehicle2.
C13_EveryPairOnce ==
    LET n == Len(vehicle_trackers)
    IN  frames >= 1 =>
          /\ 2 * Len(pair_evals) = n * (n - 1)
          /\ \A k \in 1..Len(pair_evals) :
                /\ 1 <= pair_evals[k].i
                /\ pair_evals[k].i < pair_evals[k].j
                /\ pair_evals[k].j <= n
          /\ \A k, m \in 1..Len(pair_evals) :
                k < m => \/ pair_evals[k].i < pair_evals[m].i
                         \/ /\ pair_evals[k].i = pair_evals[m].i
                            /\ pair_evals[k].j < pair_evals[m].j
          /\ \A i, j \in 1..n :
                i < j => \E k \in 1..Len(pair_evals) :
                            pair_evals[k].i = i /\ pair_evals[k].j = j
          /\ risk_events = NonNone(pair_evals)
          /\ \A k \in 1..Len(pair_evals) :
                pair_evals[k].result # << >> =>
                   /\ pair_evals[k].result[1].vehicle1_id
                         = vehicle_trackers[pair_evals[k].i].id
                   /\ pair_evals[k].result[1].vehicle2_id
                         = vehicle_trackers[pair_evals[k].j].id

\* Four tracks or more, two events or more, and a pair without an event
\* evaluated between two pairs with one.
C13_Witness ==
    /\ Len(vehicle_trackers) >= 4
    /\ Len(risk_events) >= 2
    /\ \E k, l, m \in 1..Len(pair_evals) :
          /\ k < l /\ l < m
          /\ pair_evals[k].result # << >>
          /\ pair_evals[l].result = << >>
          /\ pair_evals[m].result # << >>

\* The score of the k-th pair evaluated by the latest process_frame call.
EvalScore(k) ==
    pair_locals(vehicle_trackers[pair_evals[k].i],
                vehicle_trackers[pair_evals[k].j]).risk_score

C15_VelocityIsMean ==
    /\ track.velocity_history # << >> =>
          RMul(track.velocity, RInt(Len(track.velocity_history)))
             = RSum(track.velocity_history)
    /\ track.velocity_history = << >> => track.velocity = RInt(0)
    /\ updates >= 1 =>
          /\ track.position_history # << >>
          /\ track.position = track.position_history[Len(track.position_history)]

\* A full velocity history of unequal samples: the mean is not the latest
\* sample.
C15_Witness ==
    /\ Len(track.velocity_history) = 5
    /\ \E i, j \in 1..5 : track.velocity_history[i] # track.velocity_history[j]
    /\ track.velocity # track.velocity_history[5]
    /\ track.velocity # RInt(0)

\* Speed between two consecutive positions: pixels * 0.1 * 30.
SampleBetween(p, q) == RMul(RInt(3), euclid(q, p))

\* The speed samples of the n - 1 moves between the n positions recorded.
Moves == [k \in 1..(Len(pos_log) - 1) |-> SampleBetween(pos_log[k], pos_log[k + 1])]

Min(a, b) == IF a < b THEN a ELSE b

\* C20 (no speed sample on the first update).  After n >= 1 updates
\* position_history has min(10, n) entries and velocity_history has
\* min(5, n - 1): the first update records a position and no sample
\* (velocity is still 0), and velocity_history is the latest of the samples
\* of the n - 1 moves, each taken between a position and the one recorded
\* just before it, never from the (0, 0) of the constructor.
C20_FirstUpdateNoSample ==
    updates >= 1 =>
        /\ Len(pos_log) = updates
        /\ Len(track.position_history) = Min(10, updates)
        /\ Len(track.velocity_history) = Min(5, updates - 1)
        /\ track.velocity_history = LastOf(Moves, 5)
        /\ updates = 1 =>
              /\ track.velocity_history = << >>
              /\ track.velocity = RInt(0)
              /\ track.position = pos_log[1]
              /\ track.position # <<RInt(0), RInt(0)>>

\* Seven updates: seven positions, the latest five of six samples, the
\* first move being a real one.
C20_Witness ==
    /\ updates = 7
    /\ Len(track.position_history) = 7
    /\ Len(track.velocity_history) = 5
    /\ Moves[1] # RInt(0)
    /\ Moves[1] # track.velocity_history[1]

(***************************************************************************)
(* Properties of the risk score of a pair                                  *)
(***************************************************************************)
\* The tracks and the computed values of the k-th pair of the latest frame.
First(k) == vehicle_trackers[pair_evals[k].i]

Second(k) == vehicle_trackers[pair_evals[k].j]

EvalLocals(k) == pair_locals(First(k), Second(k))

\* Distance of two positions of the axis y = 0.
AxisDistance(p, q) == RAbs(RSub(p[1], q[1]))

\* 0.4 * max(0, 1 - distance / 2.0)
FloorScore(distance) ==
    IF RLt(distance, RInt(2))
    THEN RMul(<<2, 5>>, RSub(RInt(1), RDiv(distance, RInt(2))))
    ELSE RInt(0)

\* C18 as stated.  Two tracks with the same scalar speed score zero risk
\* whatever their positions.
C18_SameSpeedScoresZero ==
    \A k \in 1..Len(pair_evals) :
       First(k).velocity = Second(k).velocity => EvalLocals(k).risk_score = RInt(0)

\* C18 as amended.  Two tracks with the same scalar speed have relative
\* velocity 0 and score zero risk if and only if they are at least the
\* minimum safe distance 2.0 apart; closer than that they score
\* 0.4 * (1 - distance / 2.0) > 0, up to 0.4 at distance 0.
C18_SameSpeedScoresZeroFromTwo ==
    \A k \in 1..Len(pair_evals) :
       First(k).velocity = Second(k).velocity =>
          LET d == AxisDistance(First(k).position, Second(k).position)
          IN  /\ EvalLocals(k).relative_velocity = RInt(0)
              /\ EvalLocals(k).risk_score = RInt(0) <=> RLe(RInt(2), d)
              /\ RLt(d, RInt(2)) =>
                    /\ EvalLocals(k).risk_score = FloorScore(d)
                    /\ RLt(RInt(0), EvalLocals(k).risk_score)
              /\ d = RInt(0) => EvalLocals(k).risk_score = <<2, 5>>

\* Two tracks both moving at 3 units/s, 1 apart: they score 0.2.
C18_Witness ==
    \E k \in 1..Len(pair_evals) :
       /\ First(k).velocity = Second(k).velocity
       /\ First(k).velocity = RInt(3)
       /\ AxisDistance(First(k).position, Second(k).position) = RInt(1)
       /\ EvalLocals(k).risk_score = <<1, 5>>

\* C19 (relative velocity 0).  For a pair with relative velocity 0 the safe
\* distance is the floor 2.0 and the score is 0.4 * max(0, 1 - distance/2.0),
\* so no event is produced at threshold 0.7; for tracks at (0, 0) and (1, 0)
\* with empty velocity histories (velocity 0) the score is 0.2.
C19_FloorScenario ==
    \A k \in 1..Len(pair_evals) :
       LET d == AxisDistance(First(k).position, Second(k).position)
       IN  /\ EvalLocals(k).relative_velocity = RInt(0) =>
                 /\ EvalLocals(k).distance = d
                 /\ EvalLocals(k).safe_distance = RInt(2)
                 /\ EvalLocals(k).risk_score = FloorScore(d)
                 /\ risk_threshold = <<7, 10>> => pair_evals[k].result = << >>
           /\ ( /\ First(k).position = <<RInt(0), RInt(0)>>
                /\ Second(k).position = <<RInt(1), RInt(0)>>
                /\ First(k).velocity_history = << >>
                /\ Second(k).velocity_history = << >> )
                 => /\ First(k).velocity = RInt(0)
                    /\ Second(k).velocity = RInt(0)
                    /\ EvalLocals(k).risk_score = <<1, 5>>
                    /\ risk_threshold = <<7, 10>> => pair_evals[k].result = << >>

\* The scenario: the first frame puts track 1 at (0, 0) and track 2 at
\* (1, 0); at threshold 0.7 the frame returns no event.
C19_Witness ==
    /\ frames = 1
    /\ risk_threshold = <<7, 10>>
    /\ Len(vehicle_trackers) = 2
    /\ vehicle_trackers[1].position = <<RInt(0), RInt(0)>>
    /\ vehicle_trackers[2].position = <<RInt(1), RInt(0)>>
    /\ vehicle_trackers[1].velocity_history = << >>
    /\ vehicle_trackers[2].velocity_history = << >>
    /\ Len(pair_evals) = 1
    /\ risk_events = << >>

(***************************************************************************)
(* Properties of the pair loop run in any order                            *)
(***************************************************************************)
StripResult(result) == [m \in 1..Len(result) |-> WithoutTimestamp(result[m])]

StripEvents(events) == [m \in 1..Len(events) |-> WithoutTimestamp(events[m])]

\* The evaluation of the k-th pair of the sequential order, as the any-order
\* loop made it.
AnyResultOf(k) ==
    CHOOSE e \in {any_results[m] : m \in 1..Len(any_results)} :
        e.i = pair_evals[k].i /\ e.j = pair_evals[k].j

AnyResultsInPairOrder == [k \in 1..Len(pair_evals) |-> AnyResultOf(k)]

\* Every evaluation made out of order gave what the sequential loop gave for
\* that pair, the clock reading apart.
AnyOrderAgrees ==
    \A m \in 1..Len(any_results) :
       /\ \E k \in 1..Len(pair_evals) :
             /\ pair_evals[k].i = any_results[m].i
             /\ pair_evals[k].j = any_results[m].j
             /\ StripResult(pair_evals[k].result) = StripResult(any_results[m].result)
       /\ any_results[m].result # << >> => any_results[m].result[1].timestamp <= now

Count(seq, r) == Cardinality({i \in 1..Len(seq) : seq[i] = r})

\* The most recent 100 records emitted.
RecentEmitted == LastOf(Records(emitted), history_limit)

\* C16 (two threads).  With check_alerts called from two threads on one
\* AlertSystem, under every interleaving two records emitted for the same
\* key are at least the 5 s cooldown apart, and once both calls have
\* returned every record emitted (of the 100 most recent) is in the history
\* as often as it was emitted: no append is lost.
C16_MutualExclusion ==
    /\ \A i, j \in 1..Len(emitted) :
          (i < j /\ emitted[i].key = emitted[j].key)
             => emitted[j].rec.timestamp - emitted[i].rec.timestamp >= 5
    /\ Quiescent =>
          \A i \in 1..Len(RecentEmitted) :
             Count(alert_history, RecentEmitted[i]) >= Count(RecentEmitted, RecentEmitted[i])

(***************************************************************************)
(* Properties of the cooldown table                                        *)
(***************************************************************************)
EmittedKeys == {emitted[i].key : i \in 1..Len(emitted)}

\* The latest record emitted for key k.
LatestEmitted(k) ==
    emitted[CHOOSE i \in 1..Len(emitted) :
               /\ emitted[i].key = k
               /\ \A j \in (i + 1)..Len(emitted) : emitted[j].key # k]

\* C21 (cooldown table).  After any sequence of check_alerts calls the keys
\* of last_alert_time are exactly the keys for which some call returned a
\* record, the time stored for a key is the clock time of the latest call
\* that emitted it, no call removes a key, and (the clock never running
\* backwards) no call lowers the time stored for a key.
C21_CooldownTable ==
    /\ [](/\ DOMAIN last_alert_time = EmittedKeys
          /\ \A k \in DOMAIN last_alert_time :
                /\ last_alert_time[k] = LatestEmitted(k).rec.timestamp
                /\ last_alert_time[k] <= now)
    /\ [][
          /\ DOMAIN last_alert_time \subseteq DOMAIN last_alert_time'
          /\ \A k \in DOMAIN last_alert_time :
                last_alert_time'[k] >= last_alert_time[k]
          /\ \A k \in DOMAIN last_alert_time' :
                (k \notin DOMAIN last_alert_time \/ last_alert_time'[k] # last_alert_time[k])
                   => /\ last_alert_time'[k] = now'
                      /\ \E i \in (Len(emitted) + 1)..Len(emitted') :
                            emitted'[i].key = k
       ]_vars

\* A key emitted twice, 5 s or more apart, whose stored time is that of the
\* second record, next to a key emitted once and still stored with its time.
C21_Witness ==
    /\ \E i, j \in 1..Len(emitted) :
          /\ i < j
          /\ emitted[i].key = emitted[j].key
          /\ last_alert_time[emitted[j].key] = emitted[j].rec.timestamp
          /\ emitted[j].rec.timestamp > emitted[i].rec.timestamp
    /\ \E k \in DOMAIN last_alert_time :
          /\ last_alert_time[k] < now
          /\ Cardinality({i \in 1..Len(emitted) : emitted[i].key = k}) = 1

(***************************************************************************)
(* Properties of the registry across frames                                *)
(***************************************************************************)
\* The identifiers the latest frame's detections were filed under.
FrameIds == detected_ids(prev_trackers, frame_detections)

\* Indices of the tracks registered before the latest frame and absent from
\* its detections.
Undetected == {i \in 1..Len(prev_trackers) : prev_trackers[i].id \notin FrameIds}

\* C22 (undetected tracks stay in play).  A track registered earlier whose
\* identifier is absent from a frame's detections is still in the registry
\* after the frame, at its place, with position, velocity and histories
\* unchanged, and process_frame evaluates it with every other registered
\* track: the events of the frame are those of all registered tracks, not
\* only of the detected ones.
C22_UndetectedStillPaired ==
    frames >= 1 =>
       \A i \in Undetected :
          /\ i <= Len(vehicle_trackers)
          /\ vehicle_trackers[i] = prev_trackers[i]
          /\ \A j \in 1..Len(vehicle_trackers) :
                j # i => \E k \in 1..Len(pair_evals) :
                            {pair_evals[k].i, pair_evals[k].j} = {i, j}

\* A frame whose events include one between a track it detected and a track
\* it did not, and one between two tracks it did not detect.
C22_Witness ==
    /\ frame_detections # << >>
    /\ \E k \in 1..Len(pair_evals) :
          /\ pair_evals[k].result # << >>
          /\ pair_evals[k].i \in Undetected
          /\ pair_evals[k].j \notin Undetected
    /\ \E k \in 1..Len(pair_evals) :
          /\ pair_evals[k].result # << >>
          /\ pair_evals[k].i \in Undetected
          /\ pair_evals[k].j \in Undetected

\* The identifiers the detections of the latest frame carry.
ExplicitIds ==
    {frame_detections[k]["id"] :
        k \in {m \in 1..Len(frame_detections) : "id" \in DOMAIN frame_detections[m]}}

\* The detections of the latest frame that carry no identifier.
Anonymous == {k \in 1..Len(frame_detections) : "id" \notin DOMAIN frame_detections[k]}

\* C23 (a detection only touches its own vehicle's track).  A frame creates
\* one track for each identifier it carries that had no track, and one for
\* each detection without an identifier, and no other; and it leaves every
\* track registered before whose identifier it does not carry as it was: a
\* detection without an identifier never modifies an existing track, one
\* registered under an explicit identifier in particular.
C23_OwnTrackOnly ==
    frames >= 1 =>
       /\ Len(vehicle_trackers) =
             Len(prev_trackers) + Cardinality(ExplicitIds \ Ids(prev_trackers))
                + Cardinality(Anonymous)
       /\ \A i \in 1..Len(prev_trackers) :
             prev_trackers[i].id \notin ExplicitIds
                => /\ i <= Len(vehicle_trackers)
                   /\ vehicle_trackers[i] = prev_trackers[i]

=============================================================================
